---- MODULE Spec2Model ----
(***************************************************************************)
(* A model of awkward-array's tagged-union container                       *)
(* (awkward/array/union.py) and of the ragged indexing engine studied in   *)
(* tests/study_indexing.py.                                                *)
(*                                                                         *)
(* An ndarray is a record [dtype, shape, data]: data is the buffer in      *)
(* row-major order.  Exceptions are modelled by their class name.          *)
(***************************************************************************)
EXTENDS Integers, Sequences, FiniteSets, TLC

VARIABLES
    \* the UnionArray object
    constructed,    \* whether a constructor has returned an object
    tags,           \* self._tags
    index,          \* self._index
    contents,       \* self._contents
    isvalid,        \* self._isvalid
    op,             \* the last call made on the object
    raised,         \* the exception class the last call raised, or "none"
    returned,       \* what the last call returned
    \* the indexing engine
    array,          \* the structure being indexed
    slices,         \* the index terms
    advanced,       \* the advanced-index context
    result,         \* what the engine returned
    pc              \* "call" before the engine ran, "done" after

unionvars == <<constructed, tags, index, contents, isvalid, op, raised, returned>>
enginevars == <<array, slices, advanced, result, pc>>
vars == <<constructed, tags, index, contents, isvalid, op, raised, returned,
          array, slices, advanced, result, pc>>

----------------------------------------------------------------------------
(* Bounds of the model.                                                     *)

\* longest tags / index array handed to a constructor or a setter
MaxLen == 1
\* largest number of contents arrays, and the largest tag
MaxContents == 1
\* longest contents array, and the largest index value
MaxContentLen == 1
\* longest tags array handed to fromtags when it is studied on its own
MaxTagsLen == 3
\* largest number of contents arrays whose element type and shape are read
MaxTypedContents == 2
\* longest contents array whose shape is read
MaxTypedLen == 2

----------------------------------------------------------------------------
(* Sequences and ndarrays.                                                  *)

None == [kind |-> "None"]

SeqsUpTo(S, n) == UNION {[1..k -> S] : k \in 0..n}

RECURSIVE SeqMax(_)
SeqMax(s) ==
    IF Len(s) = 1 THEN s[1]
    ELSE LET m == SeqMax(Tail(s)) IN IF s[1] >= m THEN s[1] ELSE m

RECURSIVE Product(_)
Product(s) == IF s = <<>> THEN 1 ELSE s[1] * Product(Tail(s))

Take(s, n) == SubSeq(s, 1, IF n < Len(s) THEN n ELSE Len(s))

\* a 1-D ndarray of the given dtype
NdArray(dtype, data) == [dtype |-> dtype, shape |-> <<Len(data)>>, data |-> data]

\* an ndarray of the given shape whose entries are all v
Full(dtype, shape, v) ==
    [dtype |-> dtype, shape |-> shape, data |-> [k \in 1..Product(shape) |-> v]]

\* the attribute values before any constructor has run
Unset == [dtype |-> "unset", shape |-> <<0>>, data |-> <<>>]

\* len(x)
len(x) == x.shape[1]

\* the number of entries of one row of x (the product of x.shape[1:])
RowSize(x) == Product(Tail(x.shape))

----------------------------------------------------------------------------
(* numpy's scalar type hierarchy, as far as UnionArray.dtype asks about it. *)

SignedInts == {"int8", "int16", "int32", "int64"}
UnsignedInts == {"uint8", "uint16", "uint32", "uint64"}
Floats == {"float16", "float32", "float64", "float128"}
Complexes == {"complex64", "complex128", "complex256"}
\* element types outside the numeric tower
Others == {"object_", "str_"}
DTypes == {"bool_"} \cup SignedInts \cup UnsignedInts \cup Floats \cup Complexes \cup Others

\* the concrete types below an abstract class
Subclasses(c) ==
    CASE c = "integer" -> SignedInts \cup UnsignedInts
      [] c = "floating" -> Floats
      [] c = "complexfloating" -> Complexes
      [] OTHER -> {c}

\* issubclass(t, classes), classes a set of class names
issubclass(t, classes) == \E c \in classes : t \in Subclasses(c)

\* all(issubclass(x.dtype.type, classes) for x in cs)
AllSubclass(cs, classes) == \A k \in 1..Len(cs) : issubclass(cs[k].dtype, classes)

----------------------------------------------------------------------------
(* UnionArray: element type and shape.                                      *)

\* UnionArray.dtype below its boolean branch: the first branch of the cascade
\* that all contents pass
dtype_numeric(cs) ==
    IF AllSubclass(cs, {"int8"}) THEN "int8"
    ELSE IF AllSubclass(cs, {"uint8"}) THEN "uint8"
    ELSE IF AllSubclass(cs, {"int8", "uint8", "int16"}) THEN "int16"
    ELSE IF AllSubclass(cs, {"uint8", "uint16"}) THEN "uint16"
    ELSE IF AllSubclass(cs, {"int8", "uint8", "int16", "uint16", "int32"}) THEN "int32"
    ELSE IF AllSubclass(cs, {"uint8", "uint16", "uint32"}) THEN "uint32"
    ELSE IF AllSubclass(cs, {"int8", "uint8", "int16", "uint16", "int32", "uint32", "int64"})
         THEN "int64"
    ELSE IF AllSubclass(cs, {"uint8", "uint16", "uint32", "uint64"}) THEN "uint64"
    ELSE IF AllSubclass(cs, {"float16"}) THEN "float16"
    ELSE IF AllSubclass(cs, {"float16", "float32"}) THEN "float32"
    ELSE IF AllSubclass(cs, {"float16", "float32", "float64"}) THEN "float64"
    ELSE IF AllSubclass(cs, {"float16", "float32", "float64", "float128"}) THEN "float128"
    ELSE IF AllSubclass(cs, {"integer", "floating"}) THEN "float64"
    ELSE IF AllSubclass(cs, {"complex64"}) THEN "complex64"
    ELSE IF AllSubclass(cs, {"complex64", "complex128"}) THEN "complex128"
    ELSE IF AllSubclass(cs, {"complex64", "complex128", "complex256"}) THEN "complex256"
    ELSE IF AllSubclass(cs, {"integer", "floating", "complexfloating"}) THEN "complex256"
    ELSE "object_"

\* a dtype that treats booleans as the narrowest integers
dtype_bool_as_integer(cs) ==
    dtype_numeric([k \in 1..Len(cs) |->
        IF cs[k].dtype = "bool_" THEN [cs[k] EXCEPT !.dtype = "int8"] ELSE cs[k]])

\* UnionArray.dtype
dtype(cs) ==
    IF AllSubclass(cs, {"bool_"}) THEN "bool_" ELSE dtype_numeric(cs)

\* numpy.dtype(t).kind == "O"
KindIsObject(t) == t = "object_"

\* UnionArray.shape
shape(t, cs) ==
    LET first == cs[1].shape IN
    IF KindIsObject(dtype(cs)) \/ ~(\A k \in 2..Len(cs) : cs[k].shape = first)
    THEN t.shape
    ELSE t.shape \o first

----------------------------------------------------------------------------
(* UnionArray: the attribute setters' eager checks.                         *)

\* the exception the tags setter raises for value, or "none"
tags_setter(value) ==
    IF ~issubclass(value.dtype, {"integer"}) THEN "TypeError"
    ELSE IF \E k \in 1..Len(value.data) : value.data[k] < 0 THEN "ValueError"
    ELSE "none"

\* the exception the index setter raises for value, or "none"
index_setter(value) ==
    IF ~issubclass(value.dtype, {"integer"}) THEN "TypeError"
    ELSE IF \E k \in 1..Len(value.data) : value.data[k] < 0 THEN "ValueError"
    ELSE "none"

\* the exception the contents setter raises for value, or "none"
contents_setter(value) ==
    IF Len(value) = 0 THEN "ValueError" ELSE "none"

----------------------------------------------------------------------------
(* UnionArray._valid: the lazy cross-structure checks, in the code's order. *)
(* The result names the check that raised, or is "ok".  max() of an empty   *)
(* array raises ValueError too ("empty").                                   *)

_valid(t, i, cs) ==
    IF Len(t.shape) > Len(i.shape) THEN "dimensions"
    ELSE IF Tail(t.shape) # Tail(i.shape) THEN "dimensionality"
    ELSE IF t.data = <<>> THEN "empty"
    ELSE IF SeqMax(t.data) >= Len(cs) THEN "maxtag"
    ELSE LET head == Take(i.data, len(t) * RowSize(i)) IN
         IF head = <<>> THEN "empty"
         ELSE IF \E k \in 1..Len(cs) : SeqMax(head) >= Len(cs) THEN "maxindex"
         ELSE "ok"

----------------------------------------------------------------------------
(* UnionArray.__getitem__ after validation.  where is a tuple of terms,     *)
(* each IntTerm(v) or a slice.                                              *)

IntTerm(v) == [kind |-> "int", val |-> v]
\* slice(start, stop, step); an omitted bound is <<>>, a given one <<v>>
slice(a, b, c) == [kind |-> "slice", start |-> a, stop |-> b, step |-> c]
SliceTerm == slice(<<>>, <<>>, <<>>)

Raise(e) == [raised |-> e, returned |-> None]
Return(v) == [raised |-> "none", returned |-> v]

\* x[coords] for an ndarray x and as many integer coordinates as x has axes:
\* [ok, val], ok false where numpy raises IndexError
Item(x, coords) ==
    LET norm == [k \in 1..Len(coords) |->
                    IF coords[k] < 0 THEN coords[k] + x.shape[k] ELSE coords[k]]
        inside == \A k \in 1..Len(coords) : 0 <= norm[k] /\ norm[k] < x.shape[k]
        RECURSIVE Offset(_)
        Offset(k) == IF k = 0 THEN 0 ELSE Offset(k - 1) * x.shape[k] + norm[k]
    IN  IF Len(coords) > Len(x.shape) \/ ~inside
        THEN [ok |-> FALSE, val |-> 0]
        ELSE [ok |-> TRUE, val |-> x.data[Offset(Len(coords)) + 1]]

getitem(t, i, cs, where) ==
    IF where = <<>> THEN Return([kind |-> "self"])
    ELSE
    LET ndim == Len(t.shape)
        head == Take(where, ndim)
        tail == SubSeq(where, Len(head) + 1, Len(where))
        length == len(t)
        h0 == head[1]
    IN  IF h0.kind = "slice" THEN Raise("NotImplementedError")
        ELSE
        LET h == IF h0.val < 0 THEN h0.val + length ELSE h0.val IN
        IF ~(0 <= h /\ h < length) THEN Raise("IndexError")
        ELSE IF \E k \in 2..Len(where) : where[k].kind = "slice"
        THEN Raise("NotImplementedError")
        ELSE
        LET coords == <<h>> \o [k \in 1..(Len(head) - 1) |-> head[k + 1].val]
            tag == Item(t, coords)
            idx == Item(i, coords)
        IN  IF Len(coords) < ndim THEN Raise("TypeError")
            ELSE IF ~tag.ok THEN Raise("IndexError")
            ELSE IF ~idx.ok THEN Raise("IndexError")
            ELSE
            LET elem == Item(cs[tag.val + 1],
                             <<idx.val>> \o [k \in 1..Len(tail) |-> tail[k].val])
            IN  IF ~elem.ok THEN Raise("IndexError")
                ELSE Return([kind |-> "element", val |-> elem.val])

\* list(self): __iter__ after validation reads every position in order
RECURSIVE iterate(_, _, _, _)
iterate(t, i, cs, n) ==
    IF n = 0 THEN Return([kind |-> "list", val |-> <<>>])
    ELSE LET before == iterate(t, i, cs, n - 1) IN
         IF before.raised # "none" THEN before
         ELSE LET r == getitem(t, i, cs, <<IntTerm(n - 1)>>) IN
              IF r.raised # "none" THEN r
              ELSE Return([kind |-> "list",
                           val |-> Append(before.returned.val, r.returned.val)])

----------------------------------------------------------------------------
(* UnionArray.fromtags: the index it derives from the tags.                 *)

\* x[mask] = values: the k-th true position of mask receives values[k]
MaskAssign(x, mask, values) ==
    [p \in 1..Len(x) |->
        IF mask[p] THEN values[Cardinality({q \in 1..p : mask[q]})] ELSE x[p]]

\* numpy.arange(n)
arange(n) == [k \in 1..n |-> k - 1]

\* the loop over enumerate(contents), the first ntags tags done
RECURSIVE fromtags_index(_, _, _)
fromtags_index(t, empty, ntags) ==
    IF ntags = 0 THEN empty
    ELSE LET mask == [p \in 1..Len(t) |-> t[p] = ntags - 1]
             count == Cardinality({p \in 1..Len(t) : mask[p]})
         IN  MaskAssign(fromtags_index(t, empty, ntags - 1), mask, arange(count))

\* the exception fromtags raises, or "none"
fromtags_check(t, cs) ==
    IF tags_setter(t) # "none" THEN tags_setter(t)
    ELSE IF contents_setter(cs) # "none" THEN contents_setter(cs)
    ELSE IF t.data = <<>> THEN "ValueError"
    ELSE IF SeqMax(t.data) >= Len(cs) THEN "ValueError"
    ELSE "none"

----------------------------------------------------------------------------
(* The values handed to the UnionArray's constructors, setters and reads.   *)

\* integer arrays of one axis, and one of two axes
IntArrays(maxval) ==
    {NdArray("int64", d) : d \in SeqsUpTo(0..maxval, MaxLen)}
        \cup {[dtype |-> "int64", shape |-> <<1, 1>>, data |-> <<0>>]}

\* arrays a setter rejects: a floating dtype, a negative entry
RejectedArrays == {NdArray("float64", <<0>>), NdArray("int64", <<-1>>)}

TagsValues == IntArrays(MaxContents) \cup RejectedArrays
IndexValues == IntArrays(MaxContentLen) \cup RejectedArrays

\* the contents array of length n at position p of the tuple: its elements
\* are told apart by their values, 10*p, 10*p + 1, ...
Content(p, n) == NdArray("int64", [j \in 1..n |-> 10 * p + j - 1])

\* tuples of up to MaxContents contents arrays, and the empty tuple
ContentsValues ==
    {[p \in 1..Len(ns) |-> Content(p, ns[p])] :
        ns \in SeqsUpTo(0..MaxContentLen, MaxContents)}

\* the subscripts of a read of an object of up to n positions
Wheres(n) ==
    {<<IntTerm(h)>> : h \in -(n + 1)..n}
        \cup {<<IntTerm(h), IntTerm(0)>> : h \in 0..(n - 1)}
        \cup {<<>>, <<SliceTerm>>}

WhereValues == Wheres(MaxLen)

\* what numpy.empty may leave in a buffer
Garbage == {0, 999}

----------------------------------------------------------------------------
(* The UnionArray as a state machine: one action per call.                  *)

Init ==
    /\ constructed = FALSE
    /\ tags = Unset
    /\ index = Unset
    /\ contents = <<>>
    /\ isvalid = FALSE
    /\ op = "none"
    /\ raised = "none"
    /\ returned = None
    /\ array = None
    /\ slices = <<>>
    /\ advanced = None
    /\ result = None
    /\ pc = "idle"

\* a constructor that checks the tags against the contents at once
init_check_eager(t, i, cs) ==
    IF tags_setter(t) # "none" THEN tags_setter(t)
    ELSE IF index_setter(i) # "none" THEN index_setter(i)
    ELSE IF contents_setter(cs) # "none" THEN contents_setter(cs)
    ELSE IF t.data # <<>> /\ SeqMax(t.data) >= Len(cs) THEN "ValueError"
    ELSE "none"

\* the exception UnionArray(t, i, cs) raises, or "none": the three setters
\* run in the order tags, index, contents
init_check(t, i, cs) ==
    IF tags_setter(t) # "none" THEN tags_setter(t)
    ELSE IF index_setter(i) # "none" THEN index_setter(i)
    ELSE contents_setter(cs)

\* UnionArray(t, i, cs)
Construct(t, i, cs) ==
    /\ ~constructed
    /\ op' = "__init__"
    /\ raised' = init_check(t, i, cs)
    /\ returned' = None
    /\ IF init_check(t, i, cs) = "none"
       THEN /\ constructed' = TRUE
            /\ tags' = t
            /\ index' = i
            /\ contents' = cs
            /\ isvalid' = FALSE
       ELSE UNCHANGED <<constructed, tags, index, contents, isvalid>>
    /\ UNCHANGED enginevars

\* UnionArray.fromtags(t, cs), numpy.empty leaving g in the index buffer
FromTags(t, cs, g) ==
    /\ ~constructed
    /\ op' = "fromtags"
    /\ raised' = fromtags_check(t, cs)
    /\ returned' = None
    /\ IF fromtags_check(t, cs) = "none"
       THEN /\ constructed' = TRUE
            /\ tags' = t
            /\ index' = [dtype |-> "int64", shape |-> t.shape,
                         data |-> fromtags_index(t.data,
                                      [p \in 1..Len(t.data) |-> g], Len(cs))]
            /\ contents' = cs
            /\ isvalid' = FALSE
       ELSE UNCHANGED <<constructed, tags, index, contents, isvalid>>
    /\ UNCHANGED enginevars

\* self.tags = value
SetTags(value) ==
    /\ constructed
    /\ op' = "tags"
    /\ raised' = tags_setter(value)
    /\ returned' = None
    /\ IF tags_setter(value) = "none"
       THEN tags' = value /\ isvalid' = FALSE
       ELSE UNCHANGED <<tags, isvalid>>
    /\ UNCHANGED <<constructed, index, contents>>
    /\ UNCHANGED enginevars

\* an index setter that assigns before it checks
SetIndex_assigns_first(value) ==
    /\ constructed
    /\ op' = "index"
    /\ raised' = index_setter(value)
    /\ returned' = None
    /\ index' = value
    /\ isvalid' = FALSE
    /\ UNCHANGED <<constructed, tags, contents>>
    /\ UNCHANGED enginevars

\* self.index = value
SetIndex(value) ==
    /\ constructed
    /\ op' = "index"
    /\ raised' = index_setter(value)
    /\ returned' = None
    /\ IF index_setter(value) = "none"
       THEN index' = value /\ isvalid' = FALSE
       ELSE UNCHANGED <<index, isvalid>>
    /\ UNCHANGED <<constructed, tags, contents>>
    /\ UNCHANGED enginevars

\* a contents setter that leaves the validity flag alone
SetContents_keeps_flag(value) ==
    /\ constructed
    /\ op' = "contents"
    /\ raised' = contents_setter(value)
    /\ returned' = None
    /\ IF contents_setter(value) = "none"
       THEN contents' = value
       ELSE UNCHANGED contents
    /\ UNCHANGED <<constructed, tags, index, isvalid>>
    /\ UNCHANGED enginevars

\* self.contents = value
SetContents(value) ==
    /\ constructed
    /\ op' = "contents"
    /\ raised' = contents_setter(value)
    /\ returned' = None
    /\ IF contents_setter(value) = "none"
       THEN contents' = value /\ isvalid' = FALSE
       ELSE UNCHANGED <<contents, isvalid>>
    /\ UNCHANGED <<constructed, tags, index>>
    /\ UNCHANGED enginevars

\* whether self._valid() returns: the flag short-cuts the checks
ValidPasses == isvalid \/ _valid(tags, index, contents) = "ok"

\* self._valid()
Validate ==
    /\ constructed
    /\ op' = "_valid"
    /\ raised' = IF ValidPasses THEN "none" ELSE "ValueError"
    /\ returned' = None
    /\ isvalid' = ValidPasses
    /\ UNCHANGED <<constructed, tags, index, contents>>
    /\ UNCHANGED enginevars

\* what self[where] raises or returns: validation first, then the lookup
read(where) ==
    IF ValidPasses THEN getitem(tags, index, contents, where) ELSE Raise("ValueError")

\* self[where]
GetItem(where) ==
    /\ constructed
    /\ op' = "__getitem__"
    /\ raised' = read(where).raised
    /\ returned' = read(where).returned
    /\ isvalid' = ValidPasses
    /\ UNCHANGED <<constructed, tags, index, contents>>
    /\ UNCHANGED enginevars

\* list(self)
Iterate ==
    /\ constructed
    /\ op' = "__iter__"
    /\ LET r == IF ValidPasses THEN iterate(tags, index, contents, len(tags))
                ELSE Raise("ValueError")
       IN  raised' = r.raised /\ returned' = r.returned
    /\ isvalid' = ValidPasses
    /\ UNCHANGED <<constructed, tags, index, contents>>
    /\ UNCHANGED enginevars

Next ==
    \/ \E t \in TagsValues, i \in IndexValues, cs \in ContentsValues : Construct(t, i, cs)
    \/ \E t \in TagsValues, cs \in ContentsValues, g \in Garbage : FromTags(t, cs, g)
    \/ \E value \in TagsValues : SetTags(value)
    \/ \E value \in IndexValues : SetIndex(value)
    \/ \E value \in ContentsValues : SetContents(value)
    \/ Validate
    \/ \E where \in WhereValues : GetItem(where)
    \/ Iterate

Spec == Init /\ [][Next]_vars

----------------------------------------------------------------------------
(* Claims about the UnionArray's validation, checked under Spec.            *)

\* the flat positions of tags
Positions == 1..Len(tags.data)

\* position p can be read directly: contents[tags[p]][index[p]] exists
InBounds(p) ==
    /\ p <= Len(index.data)
    /\ tags.data[p] < Len(contents)
    /\ index.data[p] < len(contents[tags.data[p] + 1])

DimensionChecksPass ==
    Len(tags.shape) <= Len(index.shape) /\ Tail(tags.shape) = Tail(index.shape)

TagRangeCheckPasses ==
    tags.data # <<>> /\ SeqMax(tags.data) < Len(contents)

\* C2: when the dimensionality checks and the tag-range check pass, a
\* validation call raises if and only if some position p has
\* index[p] >= len(contents[tags[p]]); and once validation has succeeded
\* every position can be read in bounds.
C2_ValidationIsPerPosition ==
    /\ (constructed /\ op = "_valid" /\ DimensionChecksPass /\ TagRangeCheckPasses)
          => ((raised = "ValueError") <=> (\E p \in Positions : ~InBounds(p)))
    /\ (constructed /\ isvalid) => \A p \in Positions : InBounds(p)

----------------------------------------------------------------------------
(* fromtags on its own: the object is built by fromtags and then only read. *)

FromTagsValues ==
    {NdArray("int64", d) : d \in SeqsUpTo(0..(MaxContents + 1), MaxTagsLen)}

FromTagsContents ==
    {[p \in 1..Len(ns) |-> Content(p, ns[p])] :
        ns \in SeqsUpTo(1..MaxTagsLen, MaxContents + 1)}

NextFromTags ==
    \/ \E t \in FromTagsValues, cs \in FromTagsContents, g \in Garbage : FromTags(t, cs, g)
    \/ Validate
    \/ \E where \in Wheres(MaxTagsLen) : GetItem(where)
    \/ Iterate

SpecFromTags == Init /\ [][NextFromTags]_vars

\* the number of earlier positions that carry the tag of position p
EarlierSameTag(p) == Cardinality({q \in 1..(p - 1) : tags.data[q] = tags.data[p]})

\* C3: after fromtags, index[p] is the number of earlier positions with the
\* same tag, and reading position p returns contents[tags[p]][index[p]], the
\* element of the direct lookup.
C3_FromTagsRoundTrip ==
    (constructed /\ op = "fromtags") =>
        /\ \A p \in Positions : index.data[p] = EarlierSameTag(p)
        /\ (\A p \in Positions : InBounds(p)) =>
              \A p \in Positions :
                  read(<<IntTerm(p - 1)>>) =
                      Return([kind |-> "element",
                              val |-> contents[tags.data[p] + 1].data[index.data[p] + 1]])

\* some tag names a contents array that does not exist
TagOutOfRange ==
    constructed /\ tags.data # <<>> /\ SeqMax(tags.data) >= Len(contents)

ReadOps == {"_valid", "__getitem__", "__iter__"}
SetterOps == {"tags", "index", "contents"}

\* C4, construction: a constructor call whose values pass the setters' own
\* checks returns the object, whatever the tags are
C4_ConstructionDefers ==
    ~constructed =>
        \A t \in TagsValues, i \in IndexValues, cs \in ContentsValues :
            (/\ tags_setter(t) = "none" /\ index_setter(i) = "none" /\ cs # <<>>
             /\ t.data # <<>> /\ SeqMax(t.data) >= Len(cs))
            => ENABLED (Construct(t, i, cs) /\ constructed' /\ raised' = "none"
                            /\ tags' = t /\ ~isvalid')

\* C4, reads: while some tag is out of range the object is never validated,
\* and every validation call and every read raises
C4_ReadsRaise ==
    TagOutOfRange => (~isvalid /\ (op \in ReadOps => raised = "ValueError"))

\* C4: a tag >= the number of contents does not raise at construction; the
\* first read or validation call after it raises, and so does every later
\* one for as long as the tag stays out of range.
C4_DeferredValidation == C4_ConstructionDefers /\ C4_ReadsRaise

\* C4 witness: a read has raised on an object constructed with a tag out of
\* range
C4_Witness == TagOutOfRange /\ op = "__getitem__" /\ raised = "ValueError"

\* C5, the flag: when it is set, the attributes pass every check of _valid;
\* after a successful setter call it is cleared
C5_FlagMeansValid ==
    /\ (constructed /\ isvalid) => _valid(tags, index, contents) = "ok"
    /\ (op \in SetterOps /\ raised = "none") => ~isvalid
    /\ ~constructed => ~isvalid

\* C5, setting the flag: only a call that validates, on attributes that pass
\* the checks and are left alone, sets it
C5_OnlyValidationSets ==
    (~isvalid /\ isvalid') =>
        /\ op' \in ReadOps
        /\ _valid(tags, index, contents) = "ok"
        /\ UNCHANGED <<tags, index, contents>>

\* C5: in every reachable state a set validity flag means the current tags,
\* index and contents pass validation; every successful setter call clears
\* the flag and only a successful validation sets it.
C5_ValidityCache == []C5_FlagMeansValid /\ [][C5_OnlyValidationSets]_vars

\* C5 witness: the flag is set again after a setter had cleared it
C5_Witness ==
    constructed /\ isvalid /\ op = "__getitem__" /\ raised = "none" /\ tags.data # <<>>

\* C6: a setter call that raises leaves tags, index, contents and the flag
\* as they were.
C6_RejectedSetterChangesNothing ==
    [][(constructed /\ op' \in SetterOps /\ raised' # "none")
          => UNCHANGED <<tags, index, contents, isvalid, constructed>>]_vars

\* C6 witness: a setter has raised on a validated object, which is still
\* validated
C6_Witness == constructed /\ isvalid /\ op \in SetterOps /\ raised # "none"

----------------------------------------------------------------------------
(* The element type and the shape of a UnionArray, as functions of its      *)
(* contents: the object is drawn from bounded sets and the two properties   *)
(* are read.                                                                *)

ContentShapes ==
    {<<n>> : n \in 1..MaxTypedLen} \cup {<<n, 2>> : n \in 1..MaxTypedLen}

\* contents of every element type, and contents of every shape
TypedContents ==
    {[p \in 1..Len(ds) |-> Full(ds[p], <<1>>, 0)] :
        ds \in SeqsUpTo(DTypes, MaxTypedContents) \ {<<>>}}
    \cup
    {[p \in 1..Len(xs) |-> Full(xs[p][1], xs[p][2], 0)] :
        xs \in SeqsUpTo({"int64", "object_"} \X ContentShapes, MaxTypedContents) \ {<<>>}}

TypedTags ==
    {Full("int64", <<n>>, 0) : n \in 1..MaxTypedLen} \cup {Full("int64", <<1, 1>>, 0)}

InitType ==
    /\ constructed = TRUE
    /\ tags \in TypedTags
    /\ index = tags
    /\ contents \in TypedContents
    /\ isvalid = FALSE
    /\ op = "__init__"
    /\ raised = "none"
    /\ returned = None
    /\ array = None
    /\ slices = <<>>
    /\ advanced = None
    /\ result = None
    /\ pc = "idle"

\* self.dtype
Dtype ==
    /\ constructed
    /\ op' = "dtype"
    /\ raised' = "none"
    /\ returned' = [kind |-> "dtype", val |-> dtype(contents)]
    /\ UNCHANGED <<constructed, tags, index, contents, isvalid>>
    /\ UNCHANGED enginevars

\* self.shape
Shape ==
    /\ constructed
    /\ op' = "shape"
    /\ raised' = "none"
    /\ returned' = [kind |-> "shape", val |-> shape(tags, contents)]
    /\ UNCHANGED <<constructed, tags, index, contents, isvalid>>
    /\ UNCHANGED enginevars

NextType == Dtype \/ Shape

SpecType == InitType /\ [][NextType]_vars

\* the element types of the contents
ContentTypes == {contents[k].dtype : k \in 1..Len(contents)}

\* the shape of a contents array beyond its leading axis
TrailingShape(x) == Tail(x.shape)

\* C9: the shape is tags.shape + trailing_shape when all contents have the
\* same trailing shape and the element type is not object_, and tags.shape
\* in every other case.
C9_ShapeAppendsTrailingShape ==
    op = "shape" =>
        returned.val =
            IF /\ \A k \in 1..Len(contents) :
                      TrailingShape(contents[k]) = TrailingShape(contents[1])
               /\ ~KindIsObject(dtype(contents))
            THEN tags.shape \o TrailingShape(contents[1])
            ELSE tags.shape

\* the width in bits of a signed integer type
Bits(t) ==
    CASE t = "int8" -> 8 [] t = "int16" -> 16 [] t = "int32" -> 32 [] t = "int64" -> 64

\* the promotions C10 names that hold of the code: boolean only; signed
\* integers only; integers mixed with floating types
C10_Promotions ==
    /\ ContentTypes = {"bool_"} => returned.val = "bool_"
    /\ ContentTypes \subseteq SignedInts =>
          /\ returned.val \in ContentTypes
          /\ \A t \in ContentTypes : Bits(t) <= Bits(returned.val)
    /\ (/\ ContentTypes \subseteq Subclasses("integer") \cup Floats
        /\ ContentTypes \cap Subclasses("integer") # {}
        /\ ContentTypes \cap Floats # {})
          => returned.val = "float64"

\* some content's element type is not boolean, integer, floating or complex
OutsideLattice ==
    \E t \in ContentTypes :
        t \notin {"bool_"} \cup Subclasses("integer") \cup Floats \cup Complexes

\* C10 as stated: the promotions, and object_ if and only if some content's
\* element type is outside the boolean/integer/floating/complex lattice.
C10_ObjectIffOutsideLattice ==
    op = "dtype" =>
        /\ C10_Promotions
        /\ (returned.val = "object_") <=> OutsideLattice

\* C10 as amended: the promotions, and object_ if and only if some content's
\* element type is outside the lattice or boolean contents are mixed with
\* contents of another element type.
C10_ObjectIffOutsideOrMixedBool ==
    op = "dtype" =>
        /\ C10_Promotions
        /\ (returned.val = "object_") <=>
              (OutsideLattice \/ ("bool_" \in ContentTypes /\ ContentTypes # {"bool_"}))

\* C10 witness: the element type of an int32 content with a float64 content
\* has been read
C10_Witness ==
    op = "dtype" /\ ContentTypes = {"int32", "float64"} /\ returned.val = "float64"

----------------------------------------------------------------------------
(* The ragged indexing engine of tests/study_indexing.py.  A ragged         *)
(* container is [starts, stops, content]; its content is a flat ndarray or  *)
(* another ragged container.  An index term is IntTerm(v), slice(a, b, c),  *)
(* or a 1-D ndarray of dtype "int64" or "bool_".  The advanced context is   *)
(* None or an "int64" ndarray.  Every operator returns Raise(e) where the   *)
(* code raises e.                                                           *)

\* the filler of every numpy.full(..., 999, int)
Sentinel == 999

JaggedArray(starts, stops, content) ==
    [starts |-> starts, stops |-> stops, content |-> content]

\* a numpy scalar, the result of indexing a flat ndarray by one integer
Scalar(v) == [scalar |-> v]

IsNdArray(x) == "data" \in DOMAIN x
IsJagged(x) == "starts" \in DOMAIN x
IsRaise(x) == "raised" \in DOMAIN x
IsScalar(x) == "scalar" \in DOMAIN x
IsIntTerm(x) == "val" \in DOMAIN x
IsSlice(x) == "step" \in DOMAIN x
IsIntArray(x) == IsNdArray(x) /\ issubclass(x.dtype, {"integer"})
IsBoolArray(x) == IsNdArray(x) /\ x.dtype = "bool_"

\* len(x) of a flat ndarray or of a ragged container
Length(x) == IF IsNdArray(x) THEN Len(x.data) ELSE Len(x.starts)

\* x[idx] for a sequence idx of integers: numpy wraps a negative entry once
\* and raises IndexError outside -len(x)..len(x)-1; a ragged container
\* gathers its starts and stops and shares its content
Gather(x, idx) ==
    LET n == Length(x)
        norm == [k \in 1..Len(idx) |-> IF idx[k] < 0 THEN idx[k] + n ELSE idx[k]]
    IN  IF \E k \in 1..Len(idx) : norm[k] < 0 \/ norm[k] >= n
        THEN Raise("IndexError")
        ELSE IF IsNdArray(x)
        THEN NdArray(x.dtype, [k \in 1..Len(idx) |-> x.data[norm[k] + 1]])
        ELSE JaggedArray([k \in 1..Len(idx) |-> x.starts[norm[k] + 1]],
                         [k \in 1..Len(idx) |-> x.stops[norm[k] + 1]],
                         x.content)

\* x[a:b] for non-negative a and b, clipped to len(x)
ContentSlice(x, a, b) ==
    LET n == Length(x)
        lo == IF a > n THEN n ELSE a
        hi == IF b > n THEN n ELSE b
    IN  IF IsNdArray(x)
        THEN NdArray(x.dtype, SubSeq(x.data, lo + 1, hi))
        ELSE JaggedArray(SubSeq(x.starts, lo + 1, hi),
                         SubSeq(x.stops, lo + 1, hi), x.content)

\* range(a, b, c) for c # 0
range(a, b, c) ==
    LET n == IF c > 0
             THEN (IF b > a THEN (b - a + c - 1) \div c ELSE 0)
             ELSE (IF a > b THEN (a - b - c - 1) \div (-c) ELSE 0)
    IN  [k \in 1..n |-> a + (k - 1) * c]

\* numpy.nonzero(x)[0] of a boolean sequence
RECURSIVE nonzero(_)
nonzero(x) ==
    IF x = <<>> THEN <<>>
    ELSE LET front == nonzero(SubSeq(x, 1, Len(x) - 1))
         IN  IF x[Len(x)] THEN Append(front, Len(x) - 1) ELSE front

\* the loop of spread_advanced over the first n rows
RECURSIVE spread_loop(_, _, _, _)
spread_loop(starts, stops, adv, n) ==
    IF n = 0 THEN <<>>
    ELSE spread_loop(starts, stops, adv, n - 1)
             \o [k \in 1..(stops[n] - starts[n]) |-> adv[n]]

\* spread_advanced without the replication
spread_advanced_kept(starts, stops, adv) == adv

spread_advanced(starts, stops, adv) ==
    IF adv = None THEN adv
    ELSE IF ~(Len(starts) = Len(stops) /\ Len(stops) = Len(adv.data))
    THEN Raise("AssertionError")
    ELSE NdArray("int64", spread_loop(starts, stops, adv.data, Len(starts)))

\* a, b, c of getitem_slice3 for one row of the given length; c # 0
slice3_bounds(length, head) ==
    LET c  == IF head.step = <<>> THEN 1 ELSE head.step[1]
        a0 == IF head.start = <<>> THEN (IF c > 0 THEN 0 ELSE length - 1)
              ELSE IF head.start[1] < 0 THEN head.start[1] + length
              ELSE head.start[1]
        b0 == IF head.stop = <<>> THEN (IF c > 0 THEN length ELSE -1)
              ELSE IF head.stop[1] < 0 THEN head.stop[1] + length
              ELSE head.stop[1]
        reset == IF c > 0 THEN b0 <= a0 ELSE a0 <= b0
        a1 == IF reset THEN 0 ELSE a0
        b1 == IF reset THEN 0 ELSE b0
        clip(v) == IF c > 0
                   THEN (IF v < 0 THEN 0 ELSE IF v > length THEN length ELSE v)
                   ELSE (IF v < -1 THEN -1
                         ELSE IF v >= length THEN length - 1 ELSE v)
    IN  <<clip(a1), clip(b1), c>>

\* the row loop of getitem_slice3 over the first n rows: the new starts and
\* stops and the positions written to index so far
RECURSIVE slice3_loop(_, _, _)
slice3_loop(arr, head, n) ==
    IF n = 0 THEN [starts |-> <<>>, stops |-> <<>>, index |-> <<>>]
    ELSE LET before == slice3_loop(arr, head, n - 1)
             abc == slice3_bounds(arr.stops[n] - arr.starts[n], head)
             js == range(abc[1], abc[2], abc[3])
             k == Len(before.index)
         IN  [starts |-> Append(before.starts, k),
              stops |-> Append(before.stops, k + Len(js)),
              index |-> before.index
                          \o [j \in 1..Len(js) |-> arr.starts[n] + js[j]]]

\* slice(a, b, c).indices(length) of Python for c # 0: the start and stop a
\* dense sequence of that length is walked between
slice_indices(length, head) ==
    LET c == IF head.step = <<>> THEN 1 ELSE head.step[1]
        lower == IF c > 0 THEN 0 ELSE -1
        upper == IF c > 0 THEN length ELSE length - 1
        adjust(v) == IF v < 0
                     THEN (IF v + length < lower THEN lower ELSE v + length)
                     ELSE (IF v > upper THEN upper ELSE v)
        a == IF head.start = <<>> THEN (IF c > 0 THEN lower ELSE upper)
             ELSE adjust(head.start[1])
        b == IF head.stop = <<>> THEN (IF c > 0 THEN upper ELSE lower)
             ELSE adjust(head.stop[1])
    IN  <<a, b, c>>

\* the positions a dense sequence of the given length yields under a slice
slice_positions(length, head) ==
    LET abc == slice_indices(length, head) IN range(abc[1], abc[2], abc[3])

\* array[slices] of a flat ndarray, the terms taken as one index tuple
NdGetItem(arr, terms) ==
    LET n == Len(arr.data)
        h == terms[1]
    IN  IF Len(terms) > 1 THEN Raise("IndexError")
        ELSE IF IsIntTerm(h)
        THEN (IF h.val < -n \/ h.val >= n THEN Raise("IndexError")
              ELSE Scalar(arr.data[(IF h.val < 0 THEN h.val + n ELSE h.val) + 1]))
        ELSE IF IsSlice(h)
        THEN (IF h.step = <<0>> THEN Raise("ValueError")
              ELSE Gather(arr, slice_positions(n, h)))
        ELSE IF IsBoolArray(h)
        THEN (IF Len(h.data) # n THEN Raise("IndexError")
              ELSE Gather(arr, nonzero(h.data)))
        ELSE Gather(arr, h.data)

RECURSIVE getitem_next(_, _, _)

getitem_integer(arr, head, tail, adv) ==
    IF \E i \in 1..Len(arr.starts) : arr.starts[i] + head >= arr.stops[i]
    THEN Raise("ValueError")
    ELSE LET nextindex == [i \in 1..Len(arr.starts) |-> arr.starts[i] + head]
             gathered == Gather(arr.content, nextindex)
         IN  IF IsRaise(gathered) THEN gathered
             ELSE getitem_next(gathered, tail, adv)

getitem_slice3(arr, head, tail, adv) ==
    IF head.step = <<0>> THEN Raise("ValueError")
    ELSE LET loop == slice3_loop(arr, head, Len(arr.starts))
         IN  \* index has len(array.content) entries: a write past them raises
             IF Len(loop.index) > Length(arr.content) THEN Raise("IndexError")
             ELSE LET gathered == Gather(arr.content, loop.index)
                      nextadvanced == spread_advanced(loop.starts, loop.stops, adv)
                  IN  IF IsRaise(gathered) THEN gathered
                      ELSE IF IsRaise(nextadvanced) THEN nextadvanced
                      ELSE LET next == getitem_next(gathered, tail, nextadvanced)
                           IN  IF IsRaise(next) THEN next
                               ELSE JaggedArray(loop.starts, loop.stops, next)

getitem_intarray_none(arr, head, tail, adv) ==
    LET n == Len(arr.starts)
        m == Len(head.data)
        length(i) == arr.stops[i] - arr.starts[i]
        norm(i, j) == IF head.data[j] < 0 THEN head.data[j] + length(i)
                      ELSE head.data[j]
        row(k) == ((k - 1) \div m) + 1
        col(k) == ((k - 1) % m) + 1
    IN  IF \E i \in 1..n, j \in 1..m : norm(i, j) < 0 \/ norm(i, j) >= length(i)
        THEN Raise("IndexError")
        ELSE LET nextindex == [k \in 1..(n * m) |->
                              arr.starts[row(k)] + norm(row(k), col(k))]
                 nextadvanced == NdArray("int64", [k \in 1..(n * m) |-> col(k) - 1])
                 gathered == Gather(arr.content, nextindex)
             IN  IF IsRaise(gathered) THEN gathered
                 ELSE LET next == getitem_next(gathered, tail, nextadvanced)
                      IN  IF IsRaise(next) THEN next
                          ELSE JaggedArray([i \in 1..n |-> (i - 1) * m],
                                           [i \in 1..n |-> i * m], next)

getitem_intarray_some(arr, head, tail, adv) ==
    LET n == Len(arr.starts)
        m == Len(head.data)
        na == Len(adv.data)
        length(i) == arr.stops[i] - arr.starts[i]
        \* head[advanced[i]], numpy wrapping a negative advanced[i] once
        picked(i) == head.data[(IF adv.data[i] < 0 THEN adv.data[i] + m
                                ELSE adv.data[i]) + 1]
        normj(i) == IF picked(i) < 0 THEN picked(i) + length(i) ELSE picked(i)
    IN  \* array.stops[i] raises past the last row
        IF na > n THEN Raise("IndexError")
        ELSE IF \E i \in 1..na :
                    \/ adv.data[i] >= m
                    \/ adv.data[i] < -m
                    \/ normj(i) < 0
                    \/ normj(i) >= length(i)
        THEN Raise("IndexError")
        ELSE LET nextindex == [i \in 1..n |->
                              IF i <= na THEN arr.starts[i] + normj(i)
                              ELSE Sentinel]
                 nextadvanced == NdArray("int64",
                                     [i \in 1..n |-> IF i <= na THEN i - 1
                                                     ELSE Sentinel])
                 gathered == Gather(arr.content, nextindex)
             IN  IF IsRaise(gathered) THEN gathered
                 ELSE getitem_next(gathered, tail, nextadvanced)

getitem_next(arr, terms, adv) ==
    IF Len(terms) = 0 THEN arr
    ELSE IF IsNdArray(arr) THEN NdGetItem(arr, terms)
    ELSE LET head == terms[1]
             tail == Tail(terms)
         IN  IF IsIntTerm(head) THEN getitem_integer(arr, head.val, tail, adv)
             ELSE IF IsSlice(head) THEN getitem_slice3(arr, head, tail, adv)
             ELSE IF IsIntArray(head)
             THEN (IF adv = None
                   THEN getitem_intarray_none(arr, head, tail, adv)
                   ELSE getitem_intarray_some(arr, head, tail, adv))
             ELSE Raise("NotImplementedError")

\* the first loop of getitem_enter
arraylen(terms) ==
    LET lens == {IF IsBoolArray(terms[k]) THEN Len(nonzero(terms[k].data))
                 ELSE Len(terms[k].data) :
                     k \in {q \in 1..Len(terms) : IsNdArray(terms[q])}}
    IN  IF lens = {} THEN 0 ELSE CHOOSE v \in lens : \A w \in lens : w <= v

\* the second loop of getitem_enter
newslices(terms) ==
    [k \in 1..Len(terms) |->
        LET x == terms[k] IN
        IF IsBoolArray(x) THEN NdArray("int64", nonzero(x.data))
        ELSE IF IsIntTerm(x) /\ arraylen(terms) # 0
        THEN Full("int64", <<arraylen(terms)>>, x.val)
        ELSE IF IsNdArray(x) /\ x.shape = <<1>>
        THEN Full("int64", <<arraylen(terms)>>, x.data[1])
        ELSE x]

getitem_enter(arr, terms) ==
    IF Len(terms) = 0 THEN arr
    ELSE LET fake == getitem_next(JaggedArray(<<0>>, <<Length(arr)>>, arr),
                                  newslices(terms), None)
         IN  IF IsRaise(fake) THEN fake
             ELSE IF IsNdArray(fake)
             THEN (IF fake.data = <<>> THEN Raise("IndexError")
                   ELSE Scalar(fake.data[1]))
             ELSE IF IsScalar(fake) THEN Raise("AttributeError")
             ELSE IF fake.starts = <<>> THEN Raise("IndexError")
             ELSE ContentSlice(fake.content, fake.starts[1],
                               fake.stops[Len(fake.stops)])

\* x.tolist()
RECURSIVE tolist(_)
tolist(x) ==
    IF IsScalar(x) THEN x.scalar
    ELSE IF IsNdArray(x) THEN x.data
    ELSE [i \in 1..Len(x.starts) |->
             tolist(ContentSlice(x.content, x.starts[i], x.stops[i]))]

\* the number of nested list levels of x.tolist()
RECURSIVE Depth(_)
Depth(x) ==
    IF IsScalar(x) THEN 0
    ELSE IF IsNdArray(x) THEN 1
    ELSE 1 + Depth(x.content)

\* awkward.fromiter(numpy.arange(Product(shp)).reshape(shp)): one ragged
\* level per axis but the last, every row of axis k holding shp[k + 1] rows
RECURSIVE fromiter(_)
fromiter(shp) ==
    IF Len(shp) = 1 THEN NdArray("int64", arange(shp[1]))
    ELSE JaggedArray([i \in 1..shp[1] |-> (i - 1) * shp[2]],
                     [i \in 1..shp[1] |-> i * shp[2]],
                     fromiter(<<shp[1] * shp[2]>> \o SubSeq(shp, 3, Len(shp))))

----------------------------------------------------------------------------
(* The term handlers on one ragged container: one action per handler,      *)
(* taken as getitem_next dispatches on the head term.                       *)

\* longest flat content buffer
MaxBuffer == 3
\* largest number of rows of a ragged container
MaxRows == 2

\* a flat buffer whose element at position p is p
Flat(n) == NdArray("int64", arange(n))

\* the rows <<start, stop>> a buffer of length n admits
Rows(n) == {<<s, e>> : s \in 0..n, e \in 0..n} \ {<<s, e>> \in (0..n) \X (0..n) : e < s}

\* every ragged container of 1..MaxRows rows over content c
RaggedOver(c) ==
    {JaggedArray([i \in 1..Len(rs) |-> rs[i][1]],
                 [i \in 1..Len(rs) |-> rs[i][2]], c) :
         rs \in SeqsUpTo(Rows(Length(c)), MaxRows) \ {<<>>}}

\* two uneven rows over a flat buffer, the content of a two-level container
Inner == JaggedArray(<<0, 1>>, <<1, MaxBuffer>>, Flat(MaxBuffer))

IntTerms == {IntTerm(h) : h \in -(MaxBuffer + 1)..(MaxBuffer + 1)}

SliceBounds == {<<>>} \cup {<<v>> : v \in -(MaxBuffer + 1)..(MaxBuffer + 1)}
SliceTerms ==
    {slice(a, b, c) : a \in SliceBounds, b \in SliceBounds,
                      c \in {<<>>, <<-2>>, <<-1>>, <<0>>, <<1>>, <<2>>}}

IntArrayTerms == {NdArray("int64", s) : s \in SeqsUpTo({-1, 0, 1}, 2)}

Contexts == {None} \cup {NdArray("int64", s) : s \in SeqsUpTo({0, 1}, MaxRows)}

\* the calls of getitem_next the machine starts from: a slice or an integer
\* on a one-level container, an integer array on one with or without a
\* context, an integer and then an integer array on a two-level container
RaggedCall ==
    \/ \E a \in RaggedOver(Flat(MaxBuffer)), t \in IntTerms \cup SliceTerms :
          /\ array = a
          /\ slices = <<t>>
          /\ advanced = None
    \/ \E a \in RaggedOver(Flat(MaxBuffer)), t \in IntArrayTerms, adv \in Contexts :
          /\ array = a
          /\ slices = <<t>>
          /\ advanced = adv
    \/ \E a \in RaggedOver(Inner), h \in -1..2, t \in IntArrayTerms, adv \in Contexts :
          /\ array = a
          /\ slices = <<IntTerm(h), t>>
          /\ advanced = adv

InitRagged ==
    /\ constructed = FALSE
    /\ tags = Unset
    /\ index = Unset
    /\ contents = <<>>
    /\ isvalid = FALSE
    /\ op = "none"
    /\ raised = "none"
    /\ returned = None
    /\ RaggedCall
    /\ result = None
    /\ pc = "call"

Dispatched == pc = "call" /\ Len(slices) # 0 /\ IsJagged(array)

Integer ==
    /\ Dispatched
    /\ IsIntTerm(slices[1])
    /\ result' = getitem_integer(array, slices[1].val, Tail(slices), advanced)
    /\ pc' = "done"
    /\ UNCHANGED <<array, slices, advanced>>
    /\ UNCHANGED unionvars

Slice3 ==
    /\ Dispatched
    /\ IsSlice(slices[1])
    /\ result' = getitem_slice3(array, slices[1], Tail(slices), advanced)
    /\ pc' = "done"
    /\ UNCHANGED <<array, slices, advanced>>
    /\ UNCHANGED unionvars

IntArrayNone ==
    /\ Dispatched
    /\ IsIntArray(slices[1])
    /\ advanced = None
    /\ result' = getitem_intarray_none(array, slices[1], Tail(slices), advanced)
    /\ pc' = "done"
    /\ UNCHANGED <<array, slices, advanced>>
    /\ UNCHANGED unionvars

IntArraySome ==
    /\ Dispatched
    /\ IsIntArray(slices[1])
    /\ advanced # None
    /\ result' = getitem_intarray_some(array, slices[1], Tail(slices), advanced)
    /\ pc' = "done"
    /\ UNCHANGED <<array, slices, advanced>>
    /\ UNCHANGED unionvars

NextRagged == Integer \/ Slice3 \/ IntArrayNone \/ IntArraySome

SpecRagged == InitRagged /\ [][NextRagged]_vars

\* the head term of a finished call and the rows it was applied to
head == slices[1]
RowsOf(x) == 1..Len(x.starts)
RowLength(x, i) == x.stops[i] - x.starts[i]

\* C7: an integer term h on a ragged container fails with an IndexError as
\* soon as some row has starts[i] + h >= stops[i]; otherwise row i gathers
\* position starts[i] + h and the tail is applied with the context unchanged.
C7_IntegerTerm ==
    (pc = "done" /\ IsIntTerm(head)) =>
        IF \E i \in RowsOf(array) : array.starts[i] + head.val >= array.stops[i]
        THEN result = Raise("IndexError")
        ELSE LET positions == [i \in RowsOf(array) |-> array.starts[i] + head.val]
                 gathered == Gather(array.content, positions)
             IN  result = IF IsRaise(gathered) THEN gathered
                          ELSE getitem_next(gathered, Tail(slices), advanced)

\* C8: a slice term on a ragged container yields, for every row i, the
\* positions starts[i] + p for p running in order over the positions a dense
\* sequence of the row's length yields for the same slice; no bound makes it
\* raise; step 0 is an error.
C8_SliceTerm ==
    (pc = "done" /\ IsSlice(head) /\ Len(slices) = 1 /\ advanced = None) =>
        IF head.step = <<0>> THEN IsRaise(result)
        ELSE /\ ~IsRaise(result)
             /\ \A i \in RowsOf(array) :
                   LET p == slice_positions(RowLength(array, i), head)
                   IN  tolist(result)[i] =
                           [q \in 1..Len(p) |-> array.starts[i] + p[q]]

----------------------------------------------------------------------------
(* Whole index requests: getitem_enter on the ragged-wrapped form of a      *)
(* dense array, as the assertions at the end of tests/study_indexing.py     *)
(* run it.                                                                  *)

\* side length of the dense arrays
Side == 2
\* longest integer-array term
MaxIndexLen == 3

\* the dense arrays: numpy.arange(Side ** r).reshape((Side,) * r), r = 3, 4
DenseShapes == {[k \in 1..3 |-> Side], [k \in 1..4 |-> Side]}

IndexTerms ==
    {IntTerm(h) : h \in {-(Side + 1), -1, 0, Side - 1, Side}}
        \cup {slice(<<>>, <<>>, <<>>), slice(<<1>>, <<>>, <<>>),
              slice(<<>>, <<>>, <<-1>>), slice(<<>>, <<>>, <<2>>),
              slice(<<-1>>, <<Side + 1>>, <<>>)}
        \cup {NdArray("bool_", s) : s \in [1..Side -> BOOLEAN]}
        \cup {NdArray("int64", s) : s \in SeqsUpTo({-1, 0}, MaxIndexLen)}

InitIndex ==
    /\ constructed = FALSE
    /\ tags = Unset
    /\ index = Unset
    /\ contents = <<>>
    /\ isvalid = FALSE
    /\ op = "none"
    /\ raised = "none"
    /\ returned = None
    /\ \E shp \in DenseShapes : array = fromiter(shp)
    /\ \/ \E x \in IndexTerms : slices = <<x>>
       \/ \E x \in IndexTerms, y \in IndexTerms : slices = <<x, y>>
       \/ \E x \in IndexTerms, y \in IndexTerms, z \in IndexTerms :
             slices = <<x, y, z>>
    /\ advanced = None
    /\ result = None
    /\ pc = "enter"

Enter ==
    /\ pc = "enter"
    /\ result' = getitem_enter(array, slices)
    /\ pc' = "done"
    /\ UNCHANGED <<array, slices, advanced>>
    /\ UNCHANGED unionvars

NextIndex == Enter

SpecIndex == InitIndex /\ [][NextIndex]_vars

(* Dense-array (NumPy) indexing of a rectangular nested list A. *)

\* the shape of a rectangular nested list of the given depth
RECURSIVE DenseShape(_, _)
DenseShape(A, d) ==
    IF d = 0 THEN <<>> ELSE <<Len(A)>> \o DenseShape(A[1], d - 1)

\* a boolean mask stands for its true positions
Unmasked(terms) ==
    [k \in 1..Len(terms) |->
        IF IsBoolArray(terms[k]) THEN NdArray("int64", nonzero(terms[k].data))
        ELSE terms[k]]

HasArray(terms) == \E k \in 1..Len(terms) : IsNdArray(terms[k])

\* the lengths of the array terms, which broadcast against one another
ArrayLens(terms) ==
    {Len(terms[k].data) : k \in {q \in 1..Len(terms) : IsNdArray(terms[q])}}
Broadcasts(terms) == Cardinality(ArrayLens(terms) \ {1}) <= 1
BroadcastLen(terms) ==
    IF ArrayLens(terms) \ {1} = {} THEN 1
    ELSE CHOOSE n \in ArrayLens(terms) \ {1} : TRUE

\* where dense indexing raises: a step of 0, a mask of another length than
\* its axis, array terms that do not broadcast, and an integer or an array
\* entry outside -n..n-1 on an axis of size n (which, beside an array term,
\* is looked at only if the broadcast axis is not empty)
DenseRaises(shp, terms) ==
    \/ Len(terms) > Len(shp)
    \/ \E k \in 1..Len(terms) :
          \/ IsSlice(terms[k]) /\ terms[k].step = <<0>>
          \/ IsBoolArray(terms[k]) /\ Len(terms[k].data) # shp[k]
    \/ ~Broadcasts(Unmasked(terms))
    \/ /\ HasArray(terms) => BroadcastLen(Unmasked(terms)) # 0
       /\ \E k \in 1..Len(terms) :
             LET x == terms[k]
                 n == shp[k]
             IN  \/ IsIntTerm(x) /\ (x.val < -n \/ x.val >= n)
                 \/ IsIntArray(x) /\ \E j \in 1..Len(x.data) :
                                        x.data[j] < -n \/ x.data[j] >= n

\* indexing by integers and slices only
RECURSIVE Basic(_, _)
Basic(A, terms) ==
    IF terms = <<>> THEN A
    ELSE LET x == terms[1]
             n == Len(A)
         IN  IF IsIntTerm(x)
             THEN Basic(A[(IF x.val < 0 THEN x.val + n ELSE x.val) + 1],
                        Tail(terms))
             ELSE LET p == slice_positions(n, x)
                  IN  [q \in 1..Len(p) |-> Basic(A[p[q] + 1], Tail(terms))]

\* the j-th broadcast entry of every integer and array term
AtEntry(terms, j) ==
    [k \in 1..Len(terms) |->
        LET x == terms[k] IN
        IF IsSlice(x) THEN x
        ELSE IF IsIntTerm(x) THEN x
        ELSE IntTerm(x.data[IF Len(x.data) = 1 THEN 1 ELSE j])]

\* leading slices keep their axes in place before the broadcast axis
RECURSIVE Leading(_, _, _)
Leading(A, terms, n) ==
    IF IsSlice(terms[1])
    THEN LET p == slice_positions(Len(A), terms[1])
         IN  [q \in 1..Len(p) |-> Leading(A[p[q] + 1], Tail(terms), n)]
    ELSE [j \in 1..n |-> Basic(A, AtEntry(terms, j))]

\* A[terms]: without an array term, basic indexing; with one, the integer
\* and array terms broadcast to one axis, which stands where they stand if
\* they are adjacent and first if a slice separates them
DenseIndex(A, terms) ==
    LET ts == Unmasked(terms)
        adv == {k \in 1..Len(ts) : ~IsSlice(ts[k])}
        adjacent == \A k \in 1..Len(ts) :
                        (\E lo \in adv : lo < k) /\ (\E hi \in adv : hi > k)
                            => k \in adv
        n == BroadcastLen(ts)
    IN  IF ~HasArray(ts) THEN Basic(A, ts)
        ELSE IF adjacent THEN Leading(A, ts, n)
        ELSE [j \in 1..n |-> Basic(A, AtEntry(ts, j))]

\* the number of axes of A[terms]
DenseDepth(rank, terms) ==
    rank - Cardinality({k \in 1..Len(terms) : ~IsSlice(terms[k])})
         + (IF HasArray(terms) THEN 1 ELSE 0)

\* C1: getitem_enter on the ragged-wrapped form of a dense array A returns,
\* element for element, what A indexed by the same 1 to 3 terms is under
\* dense-array semantics, and raises where that indexing raises.
C1_MatchesDenseIndexing ==
    pc = "done" =>
        LET A == tolist(array)
            rank == Depth(array)
        IN  IF DenseRaises(DenseShape(A, rank), slices) THEN IsRaise(result)
            ELSE /\ ~IsRaise(result)
                 /\ Depth(result) = DenseDepth(rank, slices)
                 /\ tolist(result) = DenseIndex(A, slices)

----------------------------------------------------------------------------
(* The descent of one index request: every call of getitem_next, from the   *)
(* one getitem_enter makes down to the innermost.  Each handler makes at    *)
(* most one recursive call; Call is its arguments.                          *)

Call(arr, terms, adv) == [array |-> arr, slices |-> terms, advanced |-> adv]

\* the call of getitem_integer, line 56
integer_call(arr, h, tail, adv) ==
    IF \E i \in 1..Len(arr.starts) : arr.starts[i] + h >= arr.stops[i]
    THEN Raise("ValueError")
    ELSE LET gathered == Gather(arr.content,
                                [i \in 1..Len(arr.starts) |-> arr.starts[i] + h])
         IN  IF IsRaise(gathered) THEN gathered ELSE Call(gathered, tail, adv)

\* the call of getitem_slice3, line 115
slice3_call(arr, h, tail, adv) ==
    IF h.step = <<0>> THEN Raise("ValueError")
    ELSE LET loop == slice3_loop(arr, h, Len(arr.starts))
         IN  IF Len(loop.index) > Length(arr.content) THEN Raise("IndexError")
             ELSE LET gathered == Gather(arr.content, loop.index)
                      nextadvanced == spread_advanced(loop.starts, loop.stops, adv)
                  IN  IF IsRaise(gathered) THEN gathered
                      ELSE IF IsRaise(nextadvanced) THEN nextadvanced
                      ELSE Call(gathered, tail, nextadvanced)

\* the call of getitem_intarray_none, line 140
intarray_none_call(arr, h, tail, adv) ==
    LET n == Len(arr.starts)
        m == Len(h.data)
        length(i) == arr.stops[i] - arr.starts[i]
        norm(i, j) == IF h.data[j] < 0 THEN h.data[j] + length(i) ELSE h.data[j]
        row(k) == ((k - 1) \div m) + 1
        col(k) == ((k - 1) % m) + 1
    IN  IF \E i \in 1..n, j \in 1..m : norm(i, j) < 0 \/ norm(i, j) >= length(i)
        THEN Raise("IndexError")
        ELSE LET gathered ==
                     Gather(arr.content,
                            [k \in 1..(n * m) |->
                                arr.starts[row(k)] + norm(row(k), col(k))])
             IN  IF IsRaise(gathered) THEN gathered
                 ELSE Call(gathered, tail,
                           NdArray("int64", [k \in 1..(n * m) |-> col(k) - 1]))

\* the call of getitem_intarray_some, line 159
intarray_some_call(arr, h, tail, adv) ==
    LET n == Len(arr.starts)
        m == Len(h.data)
        na == Len(adv.data)
        length(i) == arr.stops[i] - arr.starts[i]
        picked(i) == h.data[(IF adv.data[i] < 0 THEN adv.data[i] + m
                             ELSE adv.data[i]) + 1]
        normj(i) == IF picked(i) < 0 THEN picked(i) + length(i) ELSE picked(i)
    IN  IF na > n THEN Raise("IndexError")
        ELSE IF \E i \in 1..na :
                    \/ adv.data[i] >= m
                    \/ adv.data[i] < -m
                    \/ normj(i) < 0
                    \/ normj(i) >= length(i)
        THEN Raise("IndexError")
        ELSE LET gathered ==
                     Gather(arr.content,
                            [i \in 1..n |-> IF i <= na THEN arr.starts[i] + normj(i)
                                            ELSE Sentinel])
             IN  IF IsRaise(gathered) THEN gathered
                 ELSE Call(gathered, tail,
                           NdArray("int64", [i \in 1..n |-> IF i <= na THEN i - 1
                                                            ELSE Sentinel]))

\* pc names the handler that made the current call: "enter" for the call of
\* getitem_enter, "returned" and "raised" once the descent is over
InitDescent ==
    /\ constructed = FALSE
    /\ tags = Unset
    /\ index = Unset
    /\ contents = <<>>
    /\ isvalid = FALSE
    /\ op = "none"
    /\ raised = "none"
    /\ returned = None
    /\ \E shp \in DenseShapes :
          array = JaggedArray(<<0>>, <<shp[1]>>, fromiter(shp))
    /\ \/ \E x \in IndexTerms : slices = newslices(<<x>>)
       \/ \E x \in IndexTerms, y \in IndexTerms : slices = newslices(<<x, y>>)
       \/ \E x \in IndexTerms, y \in IndexTerms, z \in IndexTerms :
             slices = newslices(<<x, y, z>>)
    /\ advanced = None
    /\ result = None
    /\ pc = "enter"

Descending == pc \notin {"returned", "raised"}
Handling == Descending /\ Len(slices) # 0 /\ IsJagged(array)

\* the handler's call becomes the current one, or the handler raises
Descend(call, handler) ==
    /\ IF IsRaise(call)
       THEN /\ pc' = "raised"
            /\ result' = call
            /\ UNCHANGED <<array, slices, advanced>>
       ELSE /\ pc' = handler
            /\ array' = call.array
            /\ slices' = call.slices
            /\ advanced' = call.advanced
            /\ UNCHANGED result
    /\ UNCHANGED unionvars

CallInteger ==
    /\ Handling
    /\ IsIntTerm(slices[1])
    /\ Descend(integer_call(array, slices[1].val, Tail(slices), advanced),
               "getitem_integer")

CallSlice3 ==
    /\ Handling
    /\ IsSlice(slices[1])
    /\ Descend(slice3_call(array, slices[1], Tail(slices), advanced),
               "getitem_slice3")

CallIntArrayNone ==
    /\ Handling
    /\ IsIntArray(slices[1])
    /\ advanced = None
    /\ Descend(intarray_none_call(array, slices[1], Tail(slices), advanced),
               "getitem_intarray_none")

CallIntArraySome ==
    /\ Handling
    /\ IsIntArray(slices[1])
    /\ advanced # None
    /\ Descend(intarray_some_call(array, slices[1], Tail(slices), advanced),
               "getitem_intarray_some")

\* len(slices) == 0: the innermost call returns its array
ReturnArray ==
    /\ Descending
    /\ Len(slices) = 0
    /\ pc' = "returned"
    /\ result' = array
    /\ UNCHANGED <<array, slices, advanced>>
    /\ UNCHANGED unionvars

NextDescent ==
    \/ CallInteger
    \/ CallSlice3
    \/ CallIntArrayNone
    \/ CallIntArraySome
    \/ ReturnArray

SpecDescent == InitDescent /\ [][NextDescent]_vars

\* the number of positions the first n rows of x yield under the slice h
RECURSIVE ProducedBy(_, _, _)
ProducedBy(x, h, n) ==
    IF n = 0 THEN 0
    ELSE ProducedBy(x, h, n - 1) + Len(slice_positions(RowLength(x, n), h))

\* C11, the length: at every call of getitem_next on a ragged container, a
\* context that is set has as many entries as the container has rows.
C11_ContextLength ==
    (Descending /\ IsJagged(array) /\ advanced # None) =>
        Len(advanced.data) = Len(array.starts)

\* C11, the steps: an integer term hands the context on unchanged; a slice
\* term hands on, for every row in order, the row's context value once per
\* position the row produced; an integer-array term hands on a set context.
C11_ContextSteps ==
    /\ pc' = "getitem_integer" => advanced' = advanced
    /\ (pc' = "getitem_slice3" /\ advanced # None) =>
          /\ advanced' # None
          /\ Len(advanced.data) = Len(array.starts)
          /\ Len(advanced'.data) = ProducedBy(array, slices[1], Len(array.starts))
          /\ \A i \in RowsOf(array) :
                \A q \in 1..Len(slice_positions(RowLength(array, i), slices[1])) :
                    advanced'.data[ProducedBy(array, slices[1], i - 1) + q]
                        = advanced.data[i]
    /\ pc' \in {"getitem_intarray_none", "getitem_intarray_some"} =>
          advanced' # None

\* C11: in every request entering through getitem_enter, a set context has
\* the length of the rows of the structure indexed at that level, after
\* integer terms, after slice terms (each row's context value replicated once
\* per position the row produced) and after integer-array terms.
C11_ContextMatchesRows == []C11_ContextLength /\ [][C11_ContextSteps]_vars

\* a call on a ragged container made by the slice handler, its context
\* holding replicated values of more than one row
C11_Witness ==
    /\ pc = "getitem_slice3"
    /\ IsJagged(array)
    /\ Len(slices) # 0
    /\ advanced # None
    /\ Len(advanced.data) = Len(array.starts)
    /\ \E p, q \in 1..Len(advanced.data) :
          p # q /\ advanced.data[p] = advanced.data[q]
    /\ \E p, q \in 1..Len(advanced.data) : advanced.data[p] # advanced.data[q]

\* the broadcast length: the largest length among the array terms, a mask
\* counting by its true entries
BroadcastMax(terms) ==
    CHOOSE n \in ArrayLens(Unmasked(terms)) :
        \A w \in ArrayLens(Unmasked(terms)) : w <= n

\* C12: when a request holds an array term and every array term has length 1
\* or the broadcast length n (a mask counting by its true entries), every
\* non-slice term getitem_enter hands to the engine is an integer array of
\* length n: a mask its true positions, a bare integer and a length-1 array
\* replicated n times.
C12_TermsNormalized ==
    (/\ pc = "done"
     /\ HasArray(slices)
     /\ \A w \in ArrayLens(Unmasked(slices)) : w \in {1, BroadcastMax(slices)}) =>
        LET n == BroadcastMax(slices)
            handed == newslices(slices)
        IN  \A k \in 1..Len(slices) :
                LET x == slices[k]
                    expected ==
                        IF IsIntTerm(x) THEN [j \in 1..n |-> x.val]
                        ELSE IF Len(Unmasked(slices)[k].data) = 1
                        THEN [j \in 1..n |-> Unmasked(slices)[k].data[1]]
                        ELSE Unmasked(slices)[k].data
                IN  ~IsSlice(x) =>
                        /\ IsIntArray(handed[k])
                        /\ Len(handed[k].data) = n
                        /\ handed[k].data = expected

\* position p of the content buffer belongs to row i of the indexed container
InRow(i, p) == array.starts[i] <= p /\ p < array.stops[i]

\* C13: every handler (integer term, slice term, integer-array term with the
\* context unset or set) either raises or gathers for row i only positions
\* within starts[i]..stops[i]-1, whatever the term, negative integers
\* included: it reads no element of another row and does not wrap around
\* the buffer.  The content is the buffer whose element at p is p, so the
\* elements gathered are the positions read.
C13_GathersWithinRows ==
    (pc = "done" /\ Len(slices) = 1 /\ IsNdArray(array.content)) =>
        \/ IsRaise(result)
        \/ /\ IsIntTerm(head) \/ (IsIntArray(head) /\ advanced # None)
           /\ \A i \in RowsOf(array) : InRow(i, result.data[i])
        \/ /\ IsSlice(head) \/ (IsIntArray(head) /\ advanced = None)
           /\ \A i \in RowsOf(array) :
                 \A q \in 1..Len(tolist(result)[i]) :
                     InRow(i, tolist(result)[i][q])

====
